---- MODULE Spec2Model ----
(***************************************************************************)
(* GhostTap server: the task-orchestration engine.                         *)
(*                                                                         *)
(*   WebSocketGateway  (v3.12-v3.14 gateway, second half of part_005)      *)
(*   SessionManager    (part_009) plus the v3.13/v3.14 methods the gateway *)
(*                     calls and part_009 does not contain                 *)
(*   HttpApiServer     (part_006, handleCreateTask)                        *)
(*   AiCore.decide     (apps/server/src/ai-core.ts, second half)           *)
(*   UiFormatter       (part_004), abstracted to the kind of a snapshot    *)
(*                                                                         *)
(* Node.js runs every handler to its next real I/O await without           *)
(* interleaving, so one action below is one such run.  The only await that *)
(* suspends a handler while the session is still live is the provider call *)
(* inside handleUiEvent: the handler is split there into HandleUiEvent     *)
(* (up to the call) and DecideReturn (from the return of the call on).     *)
(***************************************************************************)
EXTENDS Integers, Sequences, FiniteSets, TLC

(***************************************************************************)
(* Bounds of the model.                                                    *)
(***************************************************************************)
MaxSessions == 2      \* sessions ever created
MaxConns == 3         \* connections ever accepted
LoopConns == 2        \* connections ever accepted in every specification but SpecConnect
MaxTs == 2            \* device timestamps are 1..MaxTs
MaxTime == 5          \* the server clock runs 0..MaxTime
MaxHist == 5          \* user pause/resume/error records stop at this length
LoopHist == 2         \* the same, in every specification but SpecSteps
MaxCycles == 2        \* handleUiEvent invocations suspended at the same time
MaxTokens == 2        \* input and output tokens of one provider call are 1..MaxTokens
MaxStrLen == 2        \* parts of the text or the description of an element
MaxElements == 2      \* elements of a snapshot

(***************************************************************************)
(* Program constants.  The configuration values are scaled to the model:   *)
(* the grace period is two ticks of the clock, a heartbeat times out after *)
(* more than one tick, a task has three steps.                             *)
(***************************************************************************)
maxSteps == 3             \* config.maxSteps (MAX_STEPS)
disconnectGrace == 2      \* config.disconnectGrace (DISCONNECT_GRACE)
heartbeatTimeout == 1     \* config.heartbeatTimeout (WS_HEARTBEAT_TIMEOUT)
maxRetries == 3           \* const maxRetries = 3 in handleUiEvent
aiFailureThreshold == 3   \* newCount >= 3 in recordAiFailure
taskTimeout == 4          \* config.taskTimeout (TASK_TIMEOUT)
pauseTimeout == 2         \* config.pauseTimeout (PAUSE_TIMEOUT)
authTimeout == 1          \* config.authTimeout (AUTH_TIMEOUT)
aiRetryMaxAttempts == 3   \* config.aiRetryMaxAttempts (AI_RETRY_MAX_ATTEMPTS)

Users == {"u1", "u2"}
allowedUserIds == {"u1", "u2"}
ConnectUserIds == allowedUserIds \cup {"intruder", "missing"}
SessionIds == 1..MaxSessions
Conns == 1..MaxConns
Timestamps == 1..MaxTs
NoWs == 0
NoSession == 0

\* What UiFormatter sees in a snapshot.
SnapshotKinds == {"plain", "sensitive", "loading"}

\* What one provider call (callLlmWithRetry) ends with: a decision with this
\* action, or "error" when the call throws (retries exhausted, or not retryable).
ProviderOutcomes == {"click", "wait", "pause", "done", "fail", "error"}

\* The reason strings of the code.
ReasonMaxSteps == "max_steps"            \* '超过最大步骤数限制'
ReasonReplaced == "replaced"             \* '新任务覆盖'
ReasonUserStop == "user_stop"            \* '用户点击结束按钮'
ReasonUserPause == "user_pause"          \* '用户点击暂停按钮'
ReasonUserResume == "user_resume"        \* '用户点击继续按钮'
ReasonSensitive == "sensitive"           \* sensitiveCheck.reason
ReasonAi == "ai"                         \* decision.reason of a provider decision
ReasonAiFallback == "ai_unavailable"     \* 'AI服务暂时不可用，等待重试'
ReasonLoading == "loading"               \* '等待页面加载完成'
ReasonAiPaused == "ai_paused"            \* 'AI服务连续不可用，任务已暂停...'
ReasonAiRetry == "ai_retry"              \* 'AI决策出错，等待重试'
ReasonDeviceError == "device_error"      \* `${message.error}: ${message.message}`
ReasonDisconnectTimeout == "disconnect_timeout"
ReasonTaskTimeout == "task_timeout"      \* '任务超时'
ReasonPauseTimeout == "pause_timeout"    \* '暂停超时'
ReasonAuthTimeout == "auth_timeout"      \* '授权超时'
ReasonKicked == "kicked"                 \* '已在其他设备上连接'
ReasonUserPaused == "user_paused"        \* '用户暂停', the reason of a TaskResume

VARIABLES
    sessions,         \* every TaskSession object ever created, by session id
    activeSessions,   \* the keys of SessionManager.activeSessions
    clients,          \* WebSocketGateway.clients: ws -> ClientInfo
    userConnections,  \* WebSocketGateway.userConnections: user_id -> ws (NoWs: no entry)
    wsState,          \* readyState of every socket, and whether 'close' was emitted
    cycles,           \* the handleUiEvent invocations suspended in aiCore.decide
    now,              \* Date.now()
    deregisteredAt,   \* per user: whether the registry dropped the user's connection
                      \* with no connect since, and when (history variable)
    ev,               \* the event the last step handled
    sent,             \* the messages the last step wrote to sockets
    llmCalls,         \* per session: the callLlmWithRetry invocation made for it
    gate              \* the last call of UiFormatter.detectSensitiveOperations

vars == <<sessions, activeSessions, clients, userConnections, wsState, cycles, now,
          deregisteredAt, ev, sent, llmCalls, gate>>

(***************************************************************************)
(* SessionManager.  A store is a record holding the session objects (s)    *)
(* and the keys of the activeSessions map (a); the gateway threads a third *)
(* field (out, the messages written so far) through the same record.       *)
(* Every method is a function from store to store.                         *)
(***************************************************************************)
NonTerminal == {"pending", "running", "paused"}
Terminal == {"completed", "failed", "cancelled"}

\* lastUiAt is last_ui_event.timestamp read on the server clock: the device
\* clock is taken to agree with the server clock, so it is the time of the
\* delivery.  pausedAt is when the status last became 'paused' and pauseCause
\* the reason it became so for (history variables, read by no action).  The
\* goal of the n-th task created is n.
NewSession(userId, callbackUrl) ==
    [user |-> userId, goal |-> Len(sessions) + 1, status |-> "pending", device_ws |-> NoWs,
     callback_url |-> callbackUrl, pauseCause |-> "",
     history |-> <<>>, step_count |-> 0, last_ui_event |-> 0,
     input_tokens |-> 0, output_tokens |-> 0, total_tokens |-> 0,
     created_at |-> now, updated_at |-> now, lastUiAt |-> 0, pausedAt |-> 0,
     latestUiTimestamp |-> 0, aiCallInFlight |-> FALSE,
     isWaitingReconnect |-> FALSE, deviceDisconnectedAt |-> 0,
     aiFailureCount |-> 0, providerFailures |-> 0]

createSession(st, userId, callbackUrl) ==
    [st EXCEPT !.s = Append(@, NewSession(userId, callbackUrl)), !.a = @ \cup {Len(st.s) + 1}]

getUserActiveSessionSync(st, userId) ==
    LET found == {id \in st.a : st.s[id].user = userId /\ st.s[id].status \in NonTerminal}
    IN IF found = {} THEN NoSession ELSE CHOOSE id \in found : \A o \in found : id <= o

updateSessionStatus(st, sid, status, ws) ==
    IF sid \notin st.a THEN st
    ELSE [st EXCEPT !.s[sid].status = status,
                    !.s[sid].updated_at = now,
                    !.s[sid].pausedAt =
                        IF status = "paused" /\ st.s[sid].status # "paused" THEN now ELSE @,
                    !.s[sid].device_ws = IF ws # NoWs THEN ws ELSE @]

updateUiEvent(st, sid, ts) ==
    IF sid \notin st.a THEN st
    ELSE [st EXCEPT !.s[sid].last_ui_event = ts,
                    !.s[sid].lastUiAt = now,
                    !.s[sid].updated_at = now]

\* The reason for which the caller of updateSessionStatus paused the session.
notePauseCause(st, sid, reason) ==
    IF sid \notin st.a THEN st
    ELSE [st EXCEPT !.s[sid].pauseCause = reason]

\* v3.12: the session keeps the timestamp of the newest snapshot delivered.
trackLatestUiTimestamp(st, sid, ts) ==
    IF sid \notin st.a THEN st
    ELSE [st EXCEPT !.s[sid].latestUiTimestamp = ts]

\* addActionRecord numbering the record with the length before the push.
addRecordOffByOne(st, sid, action, reason) ==
    IF sid \notin st.a THEN st
    ELSE [st EXCEPT !.s[sid].history =
                        Append(@, [step |-> Len(@), action |-> action, reason |-> reason]),
                    !.s[sid].step_count = Len(st.s[sid].history) + 1,
                    !.s[sid].updated_at = now]

addActionRecord(st, sid, action, reason) ==
    IF sid \notin st.a THEN st
    ELSE [st EXCEPT !.s[sid].history =
                        Append(@, [step |-> Len(@) + 1, action |-> action, reason |-> reason]),
                    !.s[sid].step_count = Len(st.s[sid].history) + 1,
                    !.s[sid].updated_at = now]

\* updateMetrics putting the tokens of the call in place of the sums.
updateMetricsOverwrite(st, sid, inputTokens, outputTokens) ==
    IF sid \notin st.a THEN st
    ELSE [st EXCEPT !.s[sid].input_tokens = inputTokens,
                    !.s[sid].output_tokens = outputTokens,
                    !.s[sid].total_tokens = inputTokens + outputTokens]

updateMetrics(st, sid, inputTokens, outputTokens) ==
    IF sid \notin st.a THEN st
    ELSE [st EXCEPT !.s[sid].input_tokens = @ + inputTokens,
                    !.s[sid].output_tokens = @ + outputTokens,
                    !.s[sid].total_tokens =
                        (st.s[sid].input_tokens + inputTokens)
                            + (st.s[sid].output_tokens + outputTokens)]

\* endSession giving the final record the number of the record before it.
endSessionRepeatsStep(st, sid, status, result) ==
    IF sid \notin st.a THEN st
    ELSE [st EXCEPT !.s[sid].status = status,
                    !.s[sid].updated_at = now,
                    !.s[sid].history =
                        IF result # ""
                        THEN Append(@, [step |-> Len(@), action |-> status, reason |-> result])
                        ELSE @,
                    !.a = @ \ {sid}]

\* The final record is pushed only for a result that is not empty, and
\* metrics.step_count is not touched.
endSession(st, sid, status, result) ==
    IF sid \notin st.a THEN st
    ELSE [st EXCEPT !.s[sid].status = status,
                    !.s[sid].updated_at = now,
                    !.s[sid].history =
                        IF result # ""
                        THEN Append(@, [step |-> Len(@) + 1, action |-> status, reason |-> result])
                        ELSE @,
                    !.a = @ \ {sid}]

setAiCallInFlight(st, sid, flag) ==
    IF sid \notin st.a THEN st
    ELSE [st EXCEPT !.s[sid].aiCallInFlight = flag]

\* aiFailureCounts is a map of its own, keyed by session id; it is kept here
\* as a field of the session.  recordAiFailure returns shouldPause of the
\* store it leaves.
recordAiFailure(st, sid) == [st EXCEPT !.s[sid].aiFailureCount = @ + 1]

shouldPause(st, sid) == st.s[sid].aiFailureCount >= aiFailureThreshold

resetAiFailureCount(st, sid) == [st EXCEPT !.s[sid].aiFailureCount = 0]

\* v3.14, called by handleDisconnect: the grace period starts.
handleDeviceDisconnect(st, userId) ==
    LET sid == getUserActiveSessionSync(st, userId)
    IN IF sid = NoSession \/ st.s[sid].status \notin {"running", "paused"} THEN st
       ELSE [st EXCEPT !.s[sid].isWaitingReconnect = TRUE,
                       !.s[sid].deviceDisconnectedAt = now]

graceElapsed(sess) ==
    sess.isWaitingReconnect /\ now - sess.deviceDisconnectedAt > disconnectGrace

\* v3.14, called by handleReconnectResume: the store after the reconnect.
handleDeviceReconnect(st, userId, ws) ==
    LET sid == getUserActiveSessionSync(st, userId)
    IN IF sid = NoSession \/ st.s[sid].status \notin {"running", "paused"} THEN st
       ELSE IF graceElapsed(st.s[sid])
            THEN endSession(st, sid, "cancelled", ReasonDisconnectTimeout)
            ELSE [st EXCEPT !.s[sid].isWaitingReconnect = FALSE,
                            !.s[sid].device_ws = ws]

\* The session handleDeviceReconnect returns (NoSession for undefined).
reconnectedSession(st, userId) ==
    LET sid == getUserActiveSessionSync(st, userId)
    IN IF sid = NoSession \/ st.s[sid].status \notin {"running", "paused"} THEN NoSession
       ELSE IF graceElapsed(st.s[sid]) THEN NoSession
            ELSE sid

(***************************************************************************)
(* UiFormatter and AiCore, as far as the gateway depends on them.          *)
(***************************************************************************)
detectSensitiveOperations(kind) == kind = "sensitive"

isLoadingState(kind) == kind = "loading"

\* AiCore.decide when the page is loading: an immediate 'wait', no LLM call.
LoadingDecision ==
    [threw |-> FALSE, llmOk |-> FALSE, action |-> "wait", reason |-> ReasonLoading,
     inputTokens |-> 0, outputTokens |-> 0]

\* AiCore.decide letting the error of the provider call through to its caller.
decideRethrows(outcome) ==
    IF outcome = "error"
    THEN [threw |-> TRUE, llmOk |-> FALSE, action |-> "wait", reason |-> ReasonAiFallback,
          inputTokens |-> 0, outputTokens |-> 0]
    ELSE [threw |-> FALSE, llmOk |-> TRUE, action |-> outcome, reason |-> ReasonAi,
          inputTokens |-> 0, outputTokens |-> 0]

\* AiCore.decide around callLlmWithRetry: what the gateway's await receives
\* for each way the provider call can end.
AiCoreDecide(outcome) ==
    IF outcome = "error"
    THEN [threw |-> FALSE, llmOk |-> FALSE, action |-> "wait", reason |-> ReasonAiFallback,
          inputTokens |-> 0, outputTokens |-> 0]
    ELSE [threw |-> FALSE, llmOk |-> TRUE, action |-> outcome, reason |-> ReasonAi,
          inputTokens |-> 0, outputTokens |-> 0]

\* callLlm: return { decision, inputTokens, outputTokens }, the token counts
\* being those the provider reports or the estimate of a text that is not
\* empty.  The fallback of the catch block keeps its zeros.
withUsage(d, inputTokens, outputTokens) ==
    IF d.llmOk
    THEN [d EXCEPT !.inputTokens = inputTokens, !.outputTokens = outputTokens]
    ELSE d

(***************************************************************************)
(* UiFormatter.detectSensitiveOperations on the elements of a snapshot.    *)
(* A string is the sequence of its parts: "K" one of SENSITIVE_KEYWORDS,   *)
(* "Y" a currency sign (¥, ￥, 元), "C" a confirmation or purchase word    *)
(* that is no keyword (确认, 购买), "X" other text in capitals, "x" the    *)
(* same text in lower case.  支付 and 付款 are keywords as well as payment *)
(* words: a string holding one is matched as "K".  includes(part) is       *)
(* membership among the parts.  An element is its text and its desc.       *)
(***************************************************************************)
Parts == {"K", "Y", "C", "X"}

Strings == UNION {[1..n -> Parts] : n \in 0..MaxStrLen}

Elements == [text : Strings, desc : Strings]

toLowerCase(s) == [i \in DOMAIN s |-> IF s[i] = "X" THEN "x" ELSE s[i]]

includes(s, part) == \E i \in DOMAIN s : s[i] = part

\* const text = (element.text || element.desc || '').toLowerCase()
scannedText(element) ==
    toLowerCase(IF element.text # <<>> THEN element.text ELSE element.desc)

\* for (const keyword of SENSITIVE_KEYWORDS) if (text.includes(keyword.toLowerCase()))
hasKeyword(text) == includes(text, "K")

hasCurrencySymbol(text) == includes(text, "Y")

hasPaymentContext(text) == includes(text, "C") \/ includes(text, "K")

\* The body of the loop for one element: whether it returns isSensitive: true.
elementIsSensitive(element) ==
    LET text == scannedText(element)
    IN /\ text # <<>>
       /\ hasKeyword(text) \/ (hasCurrencySymbol(text) /\ hasPaymentContext(text))

\* detectSensitiveOperations(uiEvent).isSensitive
isSensitive(elements) == \E i \in DOMAIN elements : elementIsSensitive(elements[i])

NoScan == [called |-> FALSE, elements |-> <<>>, isSensitive |-> FALSE]

\* One call of detectSensitiveOperations, for a snapshot with these elements.
DetectSensitiveOperations(elements) ==
    /\ ~gate.called
    /\ gate' = [called |-> TRUE, elements |-> elements, isSensitive |-> isSensitive(elements)]
    /\ UNCHANGED <<sessions, activeSessions, clients, userConnections, wsState, cycles, now,
                   deregisteredAt, ev, sent, llmCalls>>

\* The caller has taken the result.
ScanDone ==
    /\ gate.called
    /\ gate' = NoScan
    /\ UNCHANGED <<sessions, activeSessions, clients, userConnections, wsState, cycles, now,
                   deregisteredAt, ev, sent, llmCalls>>

(***************************************************************************)
(* AiCore.callLlmWithRetry.  One invocation per session id: pc is where    *)
(* the invocation stands (calling: awaiting callLlm; sleeping: awaiting    *)
(* the backoff delay; returned, thrown: it has ended), attempt the loop    *)
(* variable, lastError the position in errors of the error it holds (0:    *)
(* null), retryCount the entry of the retryCount map.  calls counts the    *)
(* callLlm requests made and errors lists what the failed ones threw       *)
(* (history variables, read by no action).  The delay of the backoff is    *)
(* finite whatever its length and is not modelled.                         *)
(***************************************************************************)
\* What callLlm throws, by the text isRetryableError looks for in the message.
ErrorKinds == {"network error", "503", "401", "invalid JSON"}

\* The patterns of retryableErrors that the messages of ErrorKinds contain.
isRetryableError(kind) == kind \in {"network error", "503"}

\* The retry loop without the attempt cap.
alwaysAttemptsLeft(attempt) == TRUE

\* if (attempt < maxAttempts - 1)
hasAttemptsLeft(attempt) == attempt < aiRetryMaxAttempts - 1

IdleCall ==
    [pc |-> "idle", attempt |-> 0, lastError |-> 0, retryCount |-> 0, calls |-> 0,
     errors |-> <<>>]

\* The invocation begins: the loop is entered and callLlm is requested.
CallLlmWithRetry(sid) ==
    /\ llmCalls[sid].pc = "idle"
    /\ 0 < aiRetryMaxAttempts
    /\ llmCalls' = [llmCalls EXCEPT ![sid].pc = "calling", ![sid].calls = 1]
    /\ UNCHANGED <<sessions, activeSessions, clients, userConnections, wsState, cycles, now,
                   deregisteredAt, ev, sent, gate>>

\* callLlm resolves: return result.
CallLlmResolves(sid) ==
    /\ llmCalls[sid].pc = "calling"
    /\ llmCalls' = [llmCalls EXCEPT ![sid].pc = "returned"]
    /\ UNCHANGED <<sessions, activeSessions, clients, userConnections, wsState, cycles, now,
                   deregisteredAt, ev, sent, gate>>

\* callLlm rejects: the catch block, and the end of the loop when this was
\* the last attempt.
CallLlmRejects(sid, kind) ==
    /\ llmCalls[sid].pc = "calling"
    /\ LET c == llmCalls[sid]
           c1 == [c EXCEPT !.errors = Append(@, kind), !.lastError = Len(c.errors) + 1]
       IN llmCalls' = [llmCalls EXCEPT ![sid] =
              IF ~isRetryableError(kind) THEN [c1 EXCEPT !.pc = "thrown"]
              ELSE IF hasAttemptsLeft(c.attempt)
              THEN [c1 EXCEPT !.pc = "sleeping", !.retryCount = @ + 1]
              ELSE [c1 EXCEPT !.pc = "thrown", !.attempt = @ + 1]]
    /\ UNCHANGED <<sessions, activeSessions, clients, userConnections, wsState, cycles, now,
                   deregisteredAt, ev, sent, gate>>

\* The backoff delay is over: attempt++ and the next request.
SleepEnds(sid) ==
    /\ llmCalls[sid].pc = "sleeping"
    /\ llmCalls' = [llmCalls EXCEPT ![sid].pc = "calling",
                                    ![sid].attempt = @ + 1,
                                    ![sid].calls = @ + 1]
    /\ UNCHANGED <<sessions, activeSessions, clients, userConnections, wsState, cycles, now,
                   deregisteredAt, ev, sent, gate>>

\* AiCore.decide takes the result or catches the error, and resets the
\* retry count of the session.
DecideSettles(sid) ==
    /\ llmCalls[sid].pc \in {"returned", "thrown"}
    /\ llmCalls' = [llmCalls EXCEPT ![sid] = IdleCall]
    /\ UNCHANGED <<sessions, activeSessions, clients, userConnections, wsState, cycles, now,
                   deregisteredAt, ev, sent, gate>>

(***************************************************************************)
(* WebSocketGateway.                                                       *)
(***************************************************************************)
Msg(type, arg, reason, sid) == [type |-> type, arg |-> arg, reason |-> reason, sid |-> sid]

send(w, ws, msg) ==
    IF ws # NoWs /\ wsState[ws] = "open"
    THEN [w EXCEPT !.out = Append(@, [to |-> ws, type |-> msg.type, arg |-> msg.arg,
                                      reason |-> msg.reason, sid |-> msg.sid])]
    ELSE w

\* isDeviceConnected answering yes for every user.
assumeConnected(userId) == TRUE

isDeviceConnected(userId) ==
    userConnections[userId] # NoWs /\ wsState[userConnections[userId]] = "open"

\* httpApi.sendCallback: one POST to the callback target (no socket: to is NoWs).
sendCallback(w, sid, status, result) ==
    [w EXCEPT !.out = Append(@, [to |-> NoWs, type |-> "task_completed", arg |-> status,
                                 reason |-> result, sid |-> sid])]

endTask(w, sid, status, result) ==
    IF sid \notin w.a THEN w
    ELSE LET w1 == send(endSession(w, sid, status, result), userConnections[w.s[sid].user],
                        Msg("task_end", status, result, sid))
         IN IF w.s[sid].callback_url THEN sendCallback(w1, sid, status, result) ELSE w1

sendTaskStart(w, userId, sid) ==
    IF isDeviceConnected(userId)
    THEN updateSessionStatus(send(w, userConnections[userId], Msg("task_start", "", "", sid)),
                             sid, "running", userConnections[userId])
    ELSE w

World == [s |-> sessions, a |-> activeSessions, out |-> <<>>]

Commit(w) ==
    /\ sessions' = w.s
    /\ activeSessions' = w.a
    /\ sent' = w.out

IdleCycle ==
    [pc |-> "idle", sid |-> NoSession, ws |-> NoWs, basis |-> 0, input |-> 0, latest |-> 0,
     retry |-> 0, superseded |-> FALSE]

\* The event a step handles, with what the properties need of the state it
\* was handled in (history variable): pre is the session the event names as it
\* was before the step (live: it was in activeSessions), cyc the cycle a
\* decide_return resumes and next that cycle after the step, invoked whether
\* the step called aiCore.decide.
PreSession(sid) ==
    IF sid \in 1..Len(sessions)
    THEN [status |-> sessions[sid].status, live |-> sid \in activeSessions,
          history |-> sessions[sid].history, flag |-> sessions[sid].aiCallInFlight,
          waiting |-> sessions[sid].isWaitingReconnect,
          since |-> sessions[sid].deviceDisconnectedAt]
    ELSE [status |-> "none", live |-> FALSE, history |-> <<>>, flag |-> FALSE,
          waiting |-> FALSE, since |-> 0]

Event(op, ws, sid, arg) ==
    [op |-> op, ws |-> ws, sid |-> sid, arg |-> arg, pre |-> PreSession(sid),
     cyc |-> IdleCycle, next |-> IdleCycle, invoked |-> FALSE]

Online == [off |-> FALSE, at |-> 0]

Offline == [off |-> TRUE, at |-> now]

connsUsed == Cardinality({w \in Conns : wsState[w] # "unused"})

\* Whether the history of a live session is shorter than n.
histBelow(sid, n) == sid \in activeSessions => Len(sessions[sid].history) < n

NoClient == [present |-> FALSE, user |-> "", lastPing |-> 0]

Init ==
    /\ sessions = <<>>
    /\ activeSessions = {}
    /\ clients = [w \in Conns |-> NoClient]
    /\ userConnections = [u \in ConnectUserIds |-> NoWs]
    /\ wsState = [w \in Conns |-> "unused"]
    /\ cycles = [c \in 1..MaxCycles |-> IdleCycle]
    /\ now = 0
    /\ deregisteredAt = [u \in ConnectUserIds |-> Online]
    /\ ev = Event("init", NoWs, NoSession, "")
    /\ sent = <<>>
    /\ llmCalls = [sid \in SessionIds |-> IdleCall]
    /\ gate = NoScan

\* sendJson: the response to the HTTP request (no socket: to is NoWs).
sendJson(w, code, body, sid) ==
    [w EXCEPT !.out = Append(@, [to |-> NoWs, type |-> "http", arg |-> code,
                                 reason |-> body, sid |-> sid])]

\* The tail of handleCreateTask: the new session, TaskStart, the response.
createAndStart(w, userId, callbackUrl) ==
    LET deviceConnected == isDeviceConnected(userId)
        w1 == createSession(w, userId, callbackUrl)
        sid == Len(w1.s)
    IN IF deviceConnected
       THEN sendJson(sendTaskStart(w1, userId, sid), "201", "device_connected", sid)
       ELSE sendJson(w1, "200", "device_not_connected", sid)

\* handleCreateTask without the replacement of the user's live task.
createWithoutReplacing(w, userId, fieldsOk, callbackUrl) ==
    IF ~fieldsOk THEN sendJson(w, "400", "MISSING_FIELDS", NoSession)
    ELSE createAndStart(w, userId, callbackUrl)

\* handleCreateTask without the check of the required fields.
createUnvalidated(w, userId, fieldsOk, callbackUrl) ==
    LET existing == getUserActiveSessionSync(w, userId)
    IN createAndStart(IF existing # NoSession
                      THEN endSession(w, existing, "cancelled", ReasonReplaced)
                      ELSE w, userId, callbackUrl)

\* POST /api/tasks (HttpApiServer.handleCreateTask).
handleCreateTask(w, userId, fieldsOk, callbackUrl) ==
    IF ~fieldsOk THEN sendJson(w, "400", "MISSING_FIELDS", NoSession)
    ELSE LET existing == getUserActiveSessionSync(w, userId)
             w1 == IF existing # NoSession
                   THEN endSession(w, existing, "cancelled", ReasonReplaced)
                   ELSE w
         IN createAndStart(w1, userId, callbackUrl)

\* fieldsOk: the body has user_id and goal (userId is then the user_id);
\* callbackUrl: it has a callback_url.
CreateTask(userId, fieldsOk, callbackUrl) ==
    /\ Len(sessions) < MaxSessions
    /\ Commit(handleCreateTask(World, userId, fieldsOk, callbackUrl))
    /\ ev' = IF fieldsOk
             THEN Event("create", NoWs, getUserActiveSessionSync(World, userId), userId)
             ELSE Event("create_rejected", NoWs, NoSession, userId)
    /\ UNCHANGED <<clients, userConnections, wsState, cycles, now, llmCalls, gate, deregisteredAt>>

\* The connection handler of WebSocketGateway.start: validation of user_id
\* ("missing" stands for a URL without one), single-device binding,
\* registration, handleReconnectResume, welcome pong.
rejectsNobody(userId) == FALSE

rejectsConnection(userId) == userId = "missing" \/ userId \notin allowedUserIds

kickExisting(userId, ws) ==
    LET existingWs == userConnections[userId]
    IN existingWs # NoWs /\ existingWs # ws /\ wsState[existingWs] = "open"

\* handleReconnectResume without the TaskResume message.
reconnectWithoutResume(w, userId, ws) == handleDeviceReconnect(w, userId, ws)

\* reason: session.status === 'paused' ? '用户暂停' : undefined
resumeReason(sess) == IF sess.status = "paused" THEN ReasonUserPaused ELSE ""

\* ws is the socket being accepted: it is open, and not yet in wsState as such.
handleReconnectResume(w, userId, ws) ==
    LET w1 == handleDeviceReconnect(w, userId, ws)
        sid == reconnectedSession(w, userId)
    IN IF sid # NoSession /\ w1.s[sid].status \in {"running", "paused"}
       THEN [w1 EXCEPT !.out = Append(@, [to |-> ws, type |-> "task_resume",
                                          arg |-> w1.s[sid].status,
                                          reason |-> resumeReason(w1.s[sid]), sid |-> sid,
                                          goal |-> w1.s[sid].goal])]
       ELSE w1

Connect(userId) ==
    \E ws \in Conns :
        /\ wsState[ws] = "unused"
        /\ \A o \in Conns : o < ws => wsState[o] # "unused"
        /\ ev' = Event("connect", ws,
                     IF userId \in Users THEN getUserActiveSessionSync(World, userId)
                     ELSE NoSession, userId)
        /\ IF rejectsConnection(userId)
           THEN /\ wsState' = [wsState EXCEPT ![ws] = "closed"]
                /\ sent' = <<>>
                /\ UNCHANGED <<sessions, activeSessions, clients, userConnections, cycles, now, llmCalls, gate,
                               deregisteredAt>>
           ELSE LET existingWs == userConnections[userId]
                    kick == kickExisting(userId, ws)
                    w0 == IF kick
                          THEN send(World, existingWs, Msg("task_end", "cancelled", ReasonKicked, NoSession))
                          ELSE World
                    w1 == handleReconnectResume(w0, userId, ws)
                    w2 == [w1 EXCEPT !.out = Append(@, [to |-> ws, type |-> "pong", arg |-> "",
                                                        reason |-> "", sid |-> NoSession])]
                IN /\ wsState' = [o \in Conns |->
                                     IF o = ws THEN "open"
                                     ELSE IF kick /\ o = existingWs THEN "closing"
                                     ELSE wsState[o]]
                   /\ clients' = [o \in Conns |->
                                     IF o = ws THEN [present |-> TRUE, user |-> userId, lastPing |-> now]
                                     ELSE IF kick /\ o = existingWs THEN NoClient
                                     ELSE clients[o]]
                   /\ userConnections' = [userConnections EXCEPT ![userId] = ws]
                   /\ deregisteredAt' = [deregisteredAt EXCEPT ![userId] = Online]
                   /\ Commit(w2)
                   /\ UNCHANGED <<cycles, now, llmCalls, gate>>

\* The peer closes an open socket with a closing handshake: readyState leaves
\* OPEN now, the 'close' event is emitted in a later turn of the event loop.
SocketClose(ws) ==
    /\ wsState[ws] = "open"
    /\ wsState' = [wsState EXCEPT ![ws] = "closing"]
    /\ ev' = Event("socket_close", ws, NoSession, "")
    /\ sent' = <<>>
    /\ UNCHANGED <<sessions, activeSessions, clients, userConnections, cycles, now, llmCalls, gate, deregisteredAt>>

\* ws.on('close'): handleDisconnect.  The event follows a closing handshake, a
\* close or terminate by the server, or the loss of an open socket.
HandleDisconnect(ws) ==
    /\ wsState[ws] \in {"open", "closing"}
    /\ wsState' = [wsState EXCEPT ![ws] = "closed"]
    /\ ev' = Event("close_event", ws,
                 IF clients[ws].present THEN getUserActiveSessionSync(World, clients[ws].user)
                 ELSE NoSession, clients[ws].user)
    /\ IF clients[ws].present
       THEN /\ userConnections' = [userConnections EXCEPT ![clients[ws].user] = NoWs]
            /\ deregisteredAt' = [deregisteredAt EXCEPT ![clients[ws].user] =
                                      IF @.off THEN @ ELSE Offline]
            /\ Commit(handleDeviceDisconnect(World, clients[ws].user))
       ELSE /\ UNCHANGED <<userConnections, deregisteredAt>>
            /\ Commit(World)
    /\ clients' = [clients EXCEPT ![ws] = NoClient]
    /\ UNCHANGED <<cycles, now, llmCalls, gate>>

\* handlePing.  The pong is written after the device-binding update has been
\* awaited; the step takes the socket to be still open then.  A second ping at
\* the same clock value changes nothing but the pong and is left out.
HandlePing(ws) ==
    /\ wsState[ws] = "open"
    /\ clients[ws].present
    /\ clients[ws].lastPing # now
    /\ clients' = [clients EXCEPT ![ws].lastPing = now]
    /\ ev' = Event("ping", ws, NoSession, "")
    /\ Commit(send(World, ws, Msg("pong", "", "", NoSession)))
    /\ UNCHANGED <<userConnections, wsState, cycles, now, llmCalls, gate, deregisteredAt>>

heartbeatExpired(ws) ==
    clients[ws].present /\ now - clients[ws].lastPing > heartbeatTimeout

\* checkHeartbeats, when some connection has timed out.
CheckHeartbeats ==
    /\ \E ws \in Conns : heartbeatExpired(ws)
    /\ wsState' = [ws \in Conns |->
                      IF heartbeatExpired(ws) /\ wsState[ws] = "open" THEN "closing" ELSE wsState[ws]]
    /\ clients' = [ws \in Conns |-> IF heartbeatExpired(ws) THEN NoClient ELSE clients[ws]]
    /\ userConnections' = [u \in ConnectUserIds |->
                              IF \E ws \in Conns : heartbeatExpired(ws) /\ clients[ws].user = u
                              THEN NoWs ELSE userConnections[u]]
    /\ deregisteredAt' = [u \in ConnectUserIds |->
                             IF /\ \E ws \in Conns : heartbeatExpired(ws) /\ clients[ws].user = u
                                /\ ~deregisteredAt[u].off
                             THEN Offline ELSE deregisteredAt[u]]
    /\ ev' = Event("check_heartbeats", NoWs, NoSession, "")
    /\ sent' = <<>>
    /\ UNCHANGED <<sessions, activeSessions, cycles, now, llmCalls, gate>>

(***************************************************************************)
(* handleUiEvent.  A cycle is one invocation that has passed the mutex:    *)
(* sid and ws are its session and socket, basis its currentUiTimestamp,    *)
(* input the timestamp of the message handed to aiCore.decide, latest the  *)
(* latestTimestamp it read before the call it is suspended in, retry its   *)
(* retryCount.  superseded records that a snapshot with a timestamp above  *)
(* basis was delivered for the session during the call (history variable,  *)
(* read by no action).                                                     *)
(***************************************************************************)
\* const latestTimestamp = latestSession?.latestUiTimestamp || currentUiTimestamp
readLatestTimestamp(w, sid, currentUiTimestamp) ==
    IF sid \in w.a /\ w.s[sid].latestUiTimestamp # 0
    THEN w.s[sid].latestUiTimestamp
    ELSE currentUiTimestamp

\* if (latestTimestamp === currentUiTimestamp) break
decisionIsFresh(c) == c.latest = c.basis

\* handleUiEvent without the status guard.
statusUnchecked(w, sid) == FALSE

\* if (session.status !== 'running') return
sessionNotRunning(w, sid) == w.s[sid].status # "running"

\* handleUiEvent without the mutex check.
noMutex(w, sid) == FALSE

\* if (session.aiCallInFlight) return
mutexBlocks(w, sid) == w.s[sid].aiCallInFlight

\* The step limit compared with > instead of >=.
stepLimitExceeded(w, sid) == Len(w.s[sid].history) > maxSteps

\* if (session.history.length >= config.maxSteps)
stepLimitReached(w, sid) == Len(w.s[sid].history) >= maxSteps

\* The first-layer check without its action record.
pauseUnrecorded(w, ws, sid) ==
    notePauseCause(
        updateSessionStatus(send(w, ws, Msg("action", "pause", ReasonSensitive, sid)),
                            sid, "paused", NoWs),
        sid, ReasonSensitive)

\* The first-layer check: pause command, status, record.
pauseForSensitive(w, ws, sid) ==
    addActionRecord(
        notePauseCause(
            updateSessionStatus(send(w, ws, Msg("action", "pause", ReasonSensitive, sid)),
                                sid, "paused", NoWs),
            sid, ReasonSensitive),
        sid, "pause", ReasonSensitive)

\* 'record the action' and 'update the actual token consumption'.
recordDecision(w, c, d) ==
    LET w1 == addActionRecord(w, c.sid, d.action, d.reason)
    IN IF d.inputTokens > 0 \/ d.outputTokens > 0
       THEN updateMetrics(w1, c.sid, d.inputTokens, d.outputTokens)
       ELSE w1

\* The accepted decision without the status re-check before sending.
acceptUnchecked(w, c, d) ==
    LET w1 == recordDecision(w, c, d)
    IN IF d.action = "done" THEN endTask(w1, c.sid, "completed", d.reason)
       ELSE IF d.action = "fail" THEN endTask(w1, c.sid, "failed", d.reason)
       ELSE LET w2 == send(w1, c.ws, Msg("action", d.action, d.reason, c.sid))
            IN IF d.action = "pause"
               THEN notePauseCause(updateSessionStatus(w2, c.sid, "paused", NoWs),
                                   c.sid, d.reason)
               ELSE w2

\* From 'record the action' to the end of the try block, for an accepted decision.
acceptDecision(w, c, d) ==
    LET w1 == recordDecision(w, c, d)
    IN IF d.action = "done" THEN endTask(w1, c.sid, "completed", d.reason)
       ELSE IF d.action = "fail" THEN endTask(w1, c.sid, "failed", d.reason)
       ELSE IF c.sid \notin w1.a \/ w1.s[c.sid].status # "running" THEN w1
       ELSE LET w2 == send(w1, c.ws, Msg("action", d.action, d.reason, c.sid))
            IN IF d.action = "pause"
               THEN notePauseCause(updateSessionStatus(w2, c.sid, "paused", NoWs),
                                   c.sid, d.reason)
               ELSE w2

\* The catch block.
decisionFailed(w, c) ==
    LET w1 == recordAiFailure(w, c.sid)
    IN IF shouldPause(w1, c.sid)
       THEN LET w2 == send(notePauseCause(updateSessionStatus(w1, c.sid, "paused", NoWs),
                                          c.sid, ReasonAiPaused),
                           c.ws, Msg("action", "pause", ReasonAiPaused, c.sid))
            IN IF w.s[c.sid].callback_url
               THEN sendCallback(w2, c.sid, "paused", ReasonAiPaused)
               ELSE w2
       ELSE send(w1, c.ws, Msg("action", "wait", ReasonAiRetry, c.sid))

\* handleUiEvent without the finally block.
keepLock(w, c) == w

\* The finally block.
releaseLock(w, c) == setAiCallInFlight(w, c.sid, FALSE)

\* One return of aiCore.decide into the while loop: the world and the cycle
\* after it (the cycle is idle again when the handler has returned).
afterDecide(w, c, d) ==
    IF d.threw
    THEN [w |-> releaseLock(decisionFailed(w, c), c), c |-> IdleCycle]
    ELSE IF decisionIsFresh(c)
    THEN [w |-> releaseLock(acceptDecision(w, c, d), c), c |-> IdleCycle]
    ELSE IF c.retry + 1 >= maxRetries
    THEN [w |-> releaseLock(w, c), c |-> IdleCycle]
    ELSE [w |-> w,
          c |-> [c EXCEPT !.retry = @ + 1,
                          !.latest = readLatestTimestamp(w, c.sid, c.basis),
                          !.superseded = FALSE]]

\* A loading snapshot makes every call of aiCore.decide return at once, so the
\* loop runs to its end without suspending.
RECURSIVE runLoading(_, _)
runLoading(w, c) ==
    LET r == afterDecide(w, c, LoadingDecision)
    IN IF r.c.pc = "idle" THEN r.w ELSE runLoading(r.w, r.c)

freeCycle == CHOOSE i \in 1..MaxCycles : cycles[i].pc = "idle" /\ \A j \in 1..(i - 1) : cycles[j].pc # "idle"

markSuperseded(cs, sid, ts) ==
    [i \in 1..MaxCycles |->
        IF cs[i].pc = "awaiting" /\ cs[i].sid = sid /\ ts > cs[i].basis
        THEN [cs[i] EXCEPT !.superseded = TRUE]
        ELSE cs[i]]

\* Whether this delivery reaches the call of aiCore.decide.
entersDecide(w, sid, kind) ==
    /\ ~sessionNotRunning(w, sid)
    /\ ~stepLimitReached(w, sid)
    /\ ~detectSensitiveOperations(kind)
    /\ ~mutexBlocks(w, sid)

HandleUiEvent(ws, sid, ts, kind) ==
    /\ wsState[ws] = "open"
    /\ clients[ws].present
    /\ UNCHANGED <<clients, userConnections, wsState, now, llmCalls, gate, deregisteredAt>>
    /\ IF sid \notin activeSessions
       THEN /\ Commit(World)
            /\ UNCHANGED cycles
            /\ ev' = Event("ui_event", ws, sid, kind)
       ELSE LET w1 == trackLatestUiTimestamp(updateUiEvent(World, sid, ts), sid, ts)
                seen == markSuperseded(cycles, sid, ts)
            IN /\ ev' = [Event("ui_event", ws, sid, kind) EXCEPT
                            !.invoked = entersDecide(w1, sid, kind)]
               /\ IF sessionNotRunning(w1, sid)
                  THEN Commit(w1) /\ cycles' = seen
                  ELSE IF stepLimitReached(w1, sid)
                  THEN Commit(endTask(w1, sid, "failed", ReasonMaxSteps)) /\ cycles' = seen
                  ELSE IF detectSensitiveOperations(kind)
                  THEN Commit(pauseForSensitive(w1, ws, sid)) /\ cycles' = seen
                  ELSE IF mutexBlocks(w1, sid)
                  THEN Commit(w1) /\ cycles' = seen
                  ELSE LET w2 == setAiCallInFlight(w1, sid, TRUE)
                           c == [pc |-> "awaiting", sid |-> sid, ws |-> ws, basis |-> ts,
                                 input |-> ts, latest |-> readLatestTimestamp(w2, sid, ts),
                                 retry |-> 0, superseded |-> FALSE]
                       IN IF isLoadingState(kind)
                          THEN Commit(runLoading(w2, c)) /\ cycles' = seen
                          ELSE /\ \E i \in 1..MaxCycles : cycles[i].pc = "idle"
                               /\ Commit(w2)
                               /\ cycles' = [seen EXCEPT ![freeCycle] = c]

\* What the provider call did to the run of failed calls of the session
\* (history variable, counted up to the threshold).
countProviderFailure(st, sid, outcome) ==
    [st EXCEPT !.s[sid].providerFailures =
         IF outcome # "error" THEN 0
         ELSE IF @ < aiFailureThreshold THEN @ + 1 ELSE @]

\* The provider call of cycle i ends with outcome.
DecideReturn(i, outcome, inputTokens, outputTokens) ==
    /\ cycles[i].pc = "awaiting"
    /\ LET c == cycles[i]
           d == withUsage(AiCoreDecide(outcome), inputTokens, outputTokens)
           w0 == countProviderFailure(World, c.sid, outcome)
           w1 == IF d.llmOk THEN resetAiFailureCount(w0, c.sid) ELSE w0
           r == afterDecide(w1, c, d)
       IN /\ Commit(r.w)
          /\ cycles' = [cycles EXCEPT ![i] = r.c]
          /\ ev' = [Event("decide_return", c.ws, c.sid, outcome) EXCEPT
                       !.cyc = c, !.next = r.c, !.invoked = r.c.pc = "awaiting"]
    /\ UNCHANGED <<clients, userConnections, wsState, now, llmCalls, gate, deregisteredAt>>

\* The body of handlePause.
pauseSession(w, sid) ==
    IF sid \in w.a /\ w.s[sid].status = "running"
    THEN addActionRecord(notePauseCause(updateSessionStatus(w, sid, "paused", NoWs),
                                        sid, ReasonUserPause),
                         sid, "pause", ReasonUserPause)
    ELSE w

HandlePause(ws, sid) ==
    /\ wsState[ws] = "open"
    /\ clients[ws].present
    /\ sid \in activeSessions => Len(sessions[sid].history) < MaxHist
    /\ ev' = Event("pause", ws, sid, "")
    /\ Commit(pauseSession(World, sid))
    /\ UNCHANGED <<clients, userConnections, wsState, cycles, now, llmCalls, gate, deregisteredAt>>

\* handleResume leaving the session as it is.
resumeIgnored(w, sid) == w

\* The body of handleResume.
resumeSession(w, sid) ==
    IF sid \in w.a /\ w.s[sid].status = "paused"
    THEN addActionRecord(updateSessionStatus(w, sid, "running", NoWs),
                         sid, "resume", ReasonUserResume)
    ELSE w

HandleResume(ws, sid) ==
    /\ wsState[ws] = "open"
    /\ clients[ws].present
    /\ sid \in activeSessions => Len(sessions[sid].history) < MaxHist
    /\ ev' = Event("resume", ws, sid, "")
    /\ Commit(resumeSession(World, sid))
    /\ UNCHANGED <<clients, userConnections, wsState, cycles, now, llmCalls, gate, deregisteredAt>>

\* handleStop without the return for an unknown session: the task_end goes
\* out for any session object there is.
stopUnchecked(w, sid) ==
    IF sid \in w.a THEN endTask(w, sid, "cancelled", ReasonUserStop)
    ELSE IF sid \in 1..Len(w.s)
    THEN send(w, userConnections[w.s[sid].user],
              Msg("task_end", "cancelled", ReasonUserStop, sid))
    ELSE w

\* The body of handleStop.
stopSession(w, sid) ==
    IF sid \notin w.a THEN w
    ELSE endTask(w, sid, "cancelled", ReasonUserStop)

HandleStop(ws, sid) ==
    /\ wsState[ws] = "open"
    /\ clients[ws].present
    /\ ev' = Event("stop", ws, sid, "")
    /\ Commit(stopSession(World, sid))
    /\ UNCHANGED <<clients, userConnections, wsState, cycles, now, llmCalls, gate, deregisteredAt>>

\* handleError ending the task whatever the error code.
errorAlwaysFatal(w, sid, fatal) ==
    IF sid \notin w.a THEN w
    ELSE endTask(addActionRecord(w, sid, "error", ReasonDeviceError),
                 sid, "failed", ReasonDeviceError)

\* The body of handleError; fatal: message.error === 'PACKAGE_NOT_FOUND'.
reportError(w, sid, fatal) ==
    IF sid \notin w.a THEN w
    ELSE LET w1 == addActionRecord(w, sid, "error", ReasonDeviceError)
         IN IF fatal THEN endTask(w1, sid, "failed", ReasonDeviceError) ELSE w1

HandleError(ws, sid, fatal) ==
    /\ wsState[ws] = "open"
    /\ clients[ws].present
    /\ sid \in activeSessions => Len(sessions[sid].history) < MaxHist
    /\ ev' = Event("error", ws, sid, IF fatal THEN "PACKAGE_NOT_FOUND" ELSE "OTHER")
    /\ Commit(reportError(World, sid, fatal))
    /\ UNCHANGED <<clients, userConnections, wsState, cycles, now, llmCalls, gate, deregisteredAt>>

\* The disconnect-grace sweep of the v3.14 SessionManager.
graceSweep(st) ==
    LET expired == {sid \in st.a : graceElapsed(st.s[sid])}
    IN [st EXCEPT !.s = [sid \in DOMAIN st.s |->
                            IF sid \in expired
                            THEN endSession(st, sid, "cancelled", ReasonDisconnectTimeout).s[sid]
                            ELSE st.s[sid]],
                  !.a = @ \ expired]

\* const lastActivity = session.last_ui_event?.timestamp || session.updated_at
lastActivity(sess) == IF sess.last_ui_event # 0 THEN sess.lastUiAt ELSE sess.updated_at

\* isExpired || isPauseExpired || isAuthExpired
sessionExpired(sess) ==
    \/ now - lastActivity(sess) > taskTimeout
    \/ sess.status = "paused" /\ now - lastActivity(sess) > pauseTimeout
    \/ sess.status = "pending" /\ now - sess.created_at > authTimeout

expiryReason(sess) ==
    IF sess.status = "pending" /\ now - sess.created_at > authTimeout THEN ReasonAuthTimeout
    ELSE IF sess.status = "paused" /\ now - lastActivity(sess) > pauseTimeout
    THEN ReasonPauseTimeout
    ELSE ReasonTaskTimeout

\* SessionManager.cleanupExpiredSessions.
cleanupExpiredSessions(st) ==
    LET expired == {sid \in st.a : sessionExpired(st.s[sid])}
    IN [st EXCEPT !.s = [sid \in DOMAIN st.s |->
                            IF sid \in expired
                            THEN endSession(st, sid, "cancelled", expiryReason(st.s[sid])).s[sid]
                            ELSE st.s[sid]],
                  !.a = @ \ expired]

\* The sweep is periodic: it runs whether or not a session has expired.
CleanupExpiredSessions ==
    /\ activeSessions # {}
    /\ Commit(cleanupExpiredSessions(World))
    /\ ev' = Event("cleanup", NoWs, NoSession, "")
    /\ UNCHANGED <<clients, userConnections, wsState, cycles, now, llmCalls, gate, deregisteredAt>>

\* The sweep is periodic: it runs whether or not a grace period has elapsed.
GraceSweep ==
    /\ activeSessions # {}
    /\ Commit(graceSweep(World))
    /\ ev' = Event("grace_sweep", NoWs, NoSession, "")
    /\ UNCHANGED <<clients, userConnections, wsState, cycles, now, llmCalls, gate, deregisteredAt>>

Tick ==
    /\ now < MaxTime
    /\ now' = now + 1
    /\ ev' = Event("tick", NoWs, NoSession, "")
    /\ sent' = <<>>
    /\ UNCHANGED <<sessions, activeSessions, clients, userConnections, wsState, cycles,
                 deregisteredAt, llmCalls, gate>>

\* The clock beyond MaxTime: Date.now() stays at MaxTime and every time the
\* program has stored moves one tick into the past instead, down to 0.  Every
\* timeout is shorter than MaxTime, so a stored time of 0 is older than all
\* of them, as it would be with the clock running on.
agedBy1(t) == IF t > 0 THEN t - 1 ELSE 0

TickAging ==
    /\ now = MaxTime
    /\ sessions' = [sid \in DOMAIN sessions |->
                       [sessions[sid] EXCEPT !.created_at = agedBy1(@),
                                             !.updated_at = agedBy1(@),
                                             !.lastUiAt = agedBy1(@),
                                             !.pausedAt = agedBy1(@),
                                             !.deviceDisconnectedAt = agedBy1(@)]]
    /\ clients' = [ws \in Conns |-> [clients[ws] EXCEPT !.lastPing = agedBy1(@)]]
    /\ deregisteredAt' = [u \in ConnectUserIds |-> [deregisteredAt[u] EXCEPT !.at = agedBy1(@)]]
    /\ ev' = Event("tick", NoWs, NoSession, "")
    /\ sent' = <<>>
    /\ UNCHANGED <<activeSessions, userConnections, wsState, cycles, now, llmCalls, gate>>

Next ==
    \/ Tick
    \/ TickAging
    \/ \E u \in Users, ok \in BOOLEAN, cb \in BOOLEAN : CreateTask(u, ok, cb)
    \/ \E u \in ConnectUserIds : Connect(u)
    \/ \E ws \in Conns : SocketClose(ws)
    \/ \E ws \in Conns : HandleDisconnect(ws)
    \/ \E ws \in Conns : HandlePing(ws)
    \/ CheckHeartbeats
    \/ \E ws \in Conns, sid \in SessionIds, ts \in Timestamps, kind \in SnapshotKinds :
           HandleUiEvent(ws, sid, ts, kind)
    \/ \E i \in 1..MaxCycles, outcome \in ProviderOutcomes,
          inputTokens \in 1..MaxTokens, outputTokens \in 1..MaxTokens :
           DecideReturn(i, outcome, inputTokens, outputTokens)
    \/ \E ws \in Conns, sid \in SessionIds : HandlePause(ws, sid)
    \/ \E ws \in Conns, sid \in SessionIds : HandleResume(ws, sid)
    \/ \E ws \in Conns, sid \in SessionIds : HandleStop(ws, sid)
    \/ \E ws \in Conns, sid \in SessionIds, fatal \in BOOLEAN : HandleError(ws, sid, fatal)
    \/ GraceSweep
    \/ CleanupExpiredSessions

Spec == Init /\ [][Next]_vars
(***************************************************************************)
(* The decide loop of one session: one user, one task, the user's          *)
(* connections, every kind of snapshot and every end of a provider call,   *)
(* and the user's pause, resume, stop and error messages.  Time stands     *)
(* still.                                                                  *)
(***************************************************************************)
NextDecide ==
    \/ \E u \in {"u1"} : sessions = <<>> /\ CreateTask(u, TRUE, TRUE)
    \/ \E u \in {"u1"} : connsUsed < LoopConns /\ Connect(u)
    \/ \E ws \in Conns : HandleDisconnect(ws)
    \/ \E ws \in Conns, sid \in {1}, ts \in Timestamps, kind \in SnapshotKinds :
           HandleUiEvent(ws, sid, ts, kind)
    \/ \E i \in 1..MaxCycles, outcome \in ProviderOutcomes : DecideReturn(i, outcome, 1, 1)
    \/ \E ws \in Conns, sid \in {1} : histBelow(sid, LoopHist) /\ HandlePause(ws, sid)
    \/ \E ws \in Conns, sid \in {1} : histBelow(sid, LoopHist) /\ HandleResume(ws, sid)
    \/ \E ws \in Conns, sid \in {1} : HandleStop(ws, sid)
    \/ \E ws \in Conns, sid \in {1}, fatal \in BOOLEAN : histBelow(sid, LoopHist) /\ HandleError(ws, sid, fatal)

SpecDecide == Init /\ [][NextDecide]_vars

(***************************************************************************)
(* Disconnect and reconnect of one user with one task: the clock, the      *)
(* heartbeat sweep, the grace sweep, closing handshakes and close events.  *)
(***************************************************************************)
NextReconnect ==
    \/ Tick
    \/ \E u \in {"u1"} : sessions = <<>> /\ CreateTask(u, TRUE, TRUE)
    \/ \E u \in {"u1"} : connsUsed < LoopConns /\ Connect(u)
    \/ \E ws \in Conns : SocketClose(ws)
    \/ \E ws \in Conns : HandleDisconnect(ws)
    \/ \E ws \in Conns : HandlePing(ws)
    \/ CheckHeartbeats
    \/ GraceSweep
    \/ \E ws \in Conns, sid \in {1} : histBelow(sid, LoopHist) /\ HandlePause(ws, sid)
    \/ \E ws \in Conns, sid \in {1} : histBelow(sid, LoopHist) /\ HandleResume(ws, sid)

SpecReconnect == Init /\ [][NextReconnect]_vars

(***************************************************************************)
(* Task creation for two users, with replacement of a pending, running or  *)
(* paused task: a task is paused by the first-layer check and resumed and  *)
(* stopped by the user.                                                    *)
(***************************************************************************)
NextCreate ==
    \/ \E u \in Users, ok \in BOOLEAN : CreateTask(u, ok, TRUE)
    \/ \E u \in Users : connsUsed < LoopConns /\ Connect(u)
    \/ \E ws \in Conns : HandleDisconnect(ws)
    \/ \E ws \in Conns, sid \in SessionIds : HandleUiEvent(ws, sid, 1, "sensitive")
    \/ \E ws \in Conns, sid \in SessionIds : histBelow(sid, LoopHist) /\ HandleResume(ws, sid)
    \/ \E ws \in Conns, sid \in SessionIds : HandleStop(ws, sid)

SpecCreate == Init /\ [][NextCreate]_vars

(***************************************************************************)
(* The timeout sweep of one task: the clock, snapshots that pause the task *)
(* or make it wait, the user's pause and resume, and the sweep.            *)
(***************************************************************************)
NextSweep ==
    \/ Tick
    \/ \E u \in {"u1"} : sessions = <<>> /\ CreateTask(u, TRUE, TRUE)
    \/ \E u \in {"u1"} : connsUsed < LoopConns /\ Connect(u)
    \/ \E ws \in Conns, sid \in {1}, kind \in {"sensitive", "loading"} :
           HandleUiEvent(ws, sid, 1, kind)
    \/ \E ws \in Conns, sid \in {1} : histBelow(sid, LoopHist) /\ HandlePause(ws, sid)
    \/ \E ws \in Conns, sid \in {1} : histBelow(sid, LoopHist) /\ HandleResume(ws, sid)
    \/ CleanupExpiredSessions

SpecSweep == Init /\ [][NextSweep]_vars

(***************************************************************************)
(* The metrics of one task: provider calls with every token count, the     *)
(* user's pause, resume and stop.                                          *)
(***************************************************************************)
NextMetrics ==
    \/ \E u \in {"u1"} : sessions = <<>> /\ CreateTask(u, TRUE, TRUE)
    \/ \E u \in {"u1"} : connsUsed < LoopConns /\ Connect(u)
    \/ \E ws \in Conns, sid \in {1}, kind \in {"plain", "loading"} :
           HandleUiEvent(ws, sid, 1, kind)
    \/ \E i \in 1..MaxCycles, outcome \in ProviderOutcomes,
          inputTokens \in 1..MaxTokens, outputTokens \in 1..MaxTokens :
           DecideReturn(i, outcome, inputTokens, outputTokens)
    \/ \E ws \in Conns, sid \in {1} : histBelow(sid, LoopHist) /\ HandlePause(ws, sid)
    \/ \E ws \in Conns, sid \in {1} : histBelow(sid, LoopHist) /\ HandleResume(ws, sid)
    \/ \E ws \in Conns, sid \in {1} : HandleStop(ws, sid)

SpecMetrics == Init /\ [][NextMetrics]_vars

(***************************************************************************)
(* The provider call wrapper, for the calls of two sessions at a time.     *)
(***************************************************************************)
NextRetry ==
    \/ \E sid \in SessionIds : CallLlmWithRetry(sid)
    \/ \E sid \in SessionIds : CallLlmResolves(sid)
    \/ \E sid \in SessionIds, kind \in ErrorKinds : CallLlmRejects(sid, kind)
    \/ \E sid \in SessionIds : SleepEnds(sid)
    \/ \E sid \in SessionIds : DecideSettles(sid)

SpecRetry == Init /\ [][NextRetry]_vars

(***************************************************************************)
(* The step budget of one task: plain snapshots, provider decisions, and   *)
(* the user's pause, resume and error messages up to MaxHist records.      *)
(***************************************************************************)
NextSteps ==
    \/ \E u \in {"u1"} : sessions = <<>> /\ CreateTask(u, TRUE, TRUE)
    \/ \E u \in {"u1"} : connsUsed < 1 /\ Connect(u)
    \/ \E ws \in Conns, sid \in {1} : HandleUiEvent(ws, sid, 1, "plain")
    \/ \E i \in 1..MaxCycles, outcome \in {"click", "done"} : DecideReturn(i, outcome, 1, 1)
    \/ \E ws \in Conns, sid \in {1} : HandlePause(ws, sid)
    \/ \E ws \in Conns, sid \in {1} : HandleResume(ws, sid)
    \/ \E ws \in Conns, sid \in {1}, fatal \in BOOLEAN : HandleError(ws, sid, fatal)

SpecSteps == Init /\ [][NextSteps]_vars

(***************************************************************************)
(* The life of one task with the clock running on for ever: snapshots that *)
(* are decided on or pause the task, the user's resume, and the timeout    *)
(* sweep.  Time advances, the sweep keeps running (setInterval), and a     *)
(* provider call returns.                                                  *)
(***************************************************************************)
NextLive ==
    \/ Tick
    \/ TickAging
    \/ \E u \in {"u1"} : sessions = <<>> /\ CreateTask(u, TRUE, TRUE)
    \/ \E u \in {"u1"} : connsUsed < 1 /\ Connect(u)
    \/ \E ws \in Conns, sid \in {1}, kind \in {"plain", "sensitive"} :
           HandleUiEvent(ws, sid, 1, kind)
    \/ \E i \in 1..MaxCycles : DecideReturn(i, "click", 1, 1)
    \/ \E ws \in Conns, sid \in {1} : histBelow(sid, LoopHist) /\ HandleResume(ws, sid)
    \/ CleanupExpiredSessions

SpecLive ==
    /\ Init
    /\ [][NextLive]_vars
    /\ WF_vars(Tick \/ TickAging)
    /\ WF_vars(CleanupExpiredSessions)
    /\ \A i \in 1..MaxCycles : WF_vars(DecideReturn(i, "click", 1, 1))

(***************************************************************************)
(* The first-layer check on its own: snapshots of up to MaxElements        *)
(* elements, every text and description of up to MaxStrLen parts.          *)
(***************************************************************************)
NextGate ==
    \/ /\ ~gate.called
       /\ \E n \in 0..MaxElements : \E elements \in [1..n -> Elements] :
              DetectSensitiveOperations(elements)
    \/ ScanDone

SpecGate == Init /\ [][NextGate]_vars

(***************************************************************************)
(* The connection registry: connects with every kind of user_id, closing   *)
(* handshakes and close events, with tasks created and stopped meanwhile.  *)
(***************************************************************************)
NextConnect ==
    \/ \E u \in ConnectUserIds : Connect(u)
    \/ \E ws \in Conns : SocketClose(ws)
    \/ \E ws \in Conns : HandleDisconnect(ws)
    \/ \E u \in Users : CreateTask(u, TRUE, TRUE)
    \/ \E ws \in Conns, sid \in SessionIds : HandleStop(ws, sid)

SpecConnect == Init /\ [][NextConnect]_vars
(***************************************************************************)
(* Properties.                                                             *)
(***************************************************************************)
Range(s) == {s[i] : i \in DOMAIN s}

LastRecord(sid) == sessions[sid].history[Len(sessions[sid].history)]

OwnedNonTerminal(u) ==
    {sid \in DOMAIN sessions : sessions[sid].user = u /\ sessions[sid].status \in NonTerminal}

Awaiting(sid) == {i \in 1..MaxCycles : cycles[i].pc = "awaiting" /\ cycles[i].sid = sid}

ActionSentFor(sid) == \E m \in Range(sent) : m.type = "action" /\ m.sid = sid

EndedByStepLimit(sid) ==
    /\ sessions[sid].status = "failed"
    /\ sessions[sid].history # <<>>
    /\ LastRecord(sid).reason = ReasonMaxSteps

\* C1: every user owns at most one session in a non-terminal status (pending,
\* running or paused), and a task creation for a user who has such a session
\* leaves that session cancelled with the replacement reason, out of the
\* active set, with the new session as the user's only non-terminal one.
C1_OneLiveSessionPerUser ==
    /\ \A u \in Users : Cardinality(OwnedNonTerminal(u)) <= 1
    /\ (ev.op = "create" /\ ev.sid # NoSession) =>
           /\ sessions[ev.sid].status = "cancelled"
           /\ ev.sid \notin activeSessions
           /\ LastRecord(ev.sid) = [step |-> Len(ev.pre.history) + 1, action |-> "cancelled",
                                    reason |-> ReasonReplaced]
           /\ OwnedNonTerminal(ev.arg) = {Len(sessions)}

C1_Witness ==
    /\ ev.op = "create"
    /\ ev.sid # NoSession
    /\ ev.pre.status = "running"
    /\ sessions[ev.sid].status = "cancelled"
    /\ sessions[Len(sessions)].status = "running"

\* C2: a session never has two provider calls outstanding, and a snapshot
\* delivered while the session's aiCallInFlight flag is set does not call
\* aiCore.decide.
C2_OneOutstandingCall ==
    /\ \A sid \in DOMAIN sessions : Cardinality(Awaiting(sid)) <= 1
    /\ (ev.op = "ui_event" /\ ev.pre.live /\ ev.pre.flag) => ~ev.invoked

C2_Witness ==
    /\ ev.op = "ui_event"
    /\ ev.arg = "plain"
    /\ ev.pre.live
    /\ ev.pre.status = "running"
    /\ ev.pre.flag
    /\ Cardinality(Awaiting(ev.sid)) = 1

\* C3: a live session whose aiCallInFlight flag is set has a handleUiEvent
\* invocation suspended in its provider call: once the invocation has
\* returned, by whatever path, the flag is clear.
C3_FlagReleased ==
    \A sid \in activeSessions : sessions[sid].aiCallInFlight => Awaiting(sid) # {}

C3_Witness ==
    /\ ev.op = "decide_return"
    /\ ev.pre.flag
    /\ ev.pre.status = "paused"
    /\ ev.sid \in activeSessions
    /\ ~sessions[ev.sid].aiCallInFlight
    /\ Awaiting(ev.sid) = {}

\* C4: when a provider call returns and a snapshot with a greater timestamp
\* than the call's basis was delivered for the session during the call, the
\* return appends nothing to the history and sends no action command for the
\* session.
C4_StaleDecisionDiscarded ==
    (ev.op = "decide_return" /\ ev.cyc.superseded) =>
        /\ sessions[ev.sid].history = ev.pre.history
        /\ ~ActionSentFor(ev.sid)

\* C5: when a provider call returns for a running session below the retry
\* cap and a snapshot with a greater timestamp was delivered during the call,
\* the invocation calls the provider again, with the newest snapshot.
C5_RetryAgainstNewest ==
    (/\ ev.op = "decide_return"
     /\ ev.cyc.superseded
     /\ ev.cyc.retry + 1 < maxRetries
     /\ ev.pre.live
     /\ ev.pre.status = "running") =>
        /\ ev.next.pc = "awaiting"
        /\ ev.next.input = sessions[ev.sid].latestUiTimestamp

\* C6: a snapshot the first-layer check matches, delivered to a running
\* session below the step limit, leaves the session paused with exactly one
\* more record, a 'pause' record, sends a pause command on the delivering
\* connection and does not call aiCore.decide; and no step calls
\* aiCore.decide for a snapshot the check matches.
C6_SensitivePauses ==
    /\ (/\ ev.op = "ui_event"
        /\ ev.arg = "sensitive"
        /\ ev.pre.live
        /\ ev.pre.status = "running"
        /\ Len(ev.pre.history) < maxSteps) =>
           /\ ev.sid \in activeSessions
           /\ sessions[ev.sid].status = "paused"
           /\ sessions[ev.sid].history =
                  Append(ev.pre.history, [step |-> Len(ev.pre.history) + 1, action |-> "pause",
                                          reason |-> ReasonSensitive])
           /\ \E m \in Range(sent) :
                  m.to = ev.ws /\ m.type = "action" /\ m.arg = "pause" /\ m.sid = ev.sid
           /\ ~ev.invoked
    /\ (ev.op = "ui_event" /\ ev.invoked) => ev.arg # "sensitive"

C6_Witness ==
    /\ ev.op = "ui_event"
    /\ ev.arg = "sensitive"
    /\ ev.pre.status = "running"
    /\ ev.pre.flag
    /\ sessions[ev.sid].status = "paused"
    /\ LastRecord(ev.sid).action = "pause"

\* C7: when a provider call of a running session fails and it is the third
\* failed call in a row with no successful call in between, the session is
\* paused.
C7_ThreeFailuresPause ==
    (/\ ev.op = "decide_return"
     /\ ev.arg = "error"
     /\ ev.pre.live
     /\ ev.pre.status = "running"
     /\ sessions[ev.sid].providerFailures >= aiFailureThreshold) =>
        sessions[ev.sid].status = "paused"

\* C8: when a user connects while the user's running or paused session is
\* awaiting reconnect and less than the grace period has passed since the
\* disconnect, the session stays active with the status and history it had,
\* is no longer awaiting reconnect, is bound to the new connection, and a
\* task_resume carrying its status is sent on the new connection.
C8_ReconnectWithinGrace ==
    (/\ ev.op = "connect"
     /\ ev.pre.live
     /\ ev.pre.status \in {"running", "paused"}
     /\ ev.pre.waiting
     /\ now - ev.pre.since < disconnectGrace) =>
        /\ ev.sid \in activeSessions
        /\ sessions[ev.sid].status = ev.pre.status
        /\ sessions[ev.sid].history = ev.pre.history
        /\ ~sessions[ev.sid].isWaitingReconnect
        /\ sessions[ev.sid].device_ws = ev.ws
        /\ \E m \in Range(sent) :
               m.to = ev.ws /\ m.type = "task_resume" /\ m.sid = ev.sid /\ m.arg = ev.pre.status

C8_Witness ==
    /\ ev.op = "connect"
    /\ ev.pre.live
    /\ ev.pre.status = "paused"
    /\ ev.pre.waiting
    /\ now - ev.pre.since = disconnectGrace - 1
    /\ sessions[ev.sid].device_ws = ev.ws

\* C9: when the grace sweep has run, no running or paused session is left
\* whose user's connection was deregistered more than the grace period ago
\* with no connect since.
C9_CancelledAfterGrace ==
    ev.op = "grace_sweep" =>
        \A sid \in activeSessions :
            ~(/\ sessions[sid].status \in {"running", "paused"}
              /\ deregisteredAt[sessions[sid].user].off
              /\ now - deregisteredAt[sessions[sid].user].at > disconnectGrace)

\* C10: a snapshot delivered to a running session whose history has reached
\* maxSteps ends the session as failed with the step-limit reason, calls no
\* provider and sends no action command; and no action command is ever sent
\* for a session that the step limit has ended.
C10_StepLimit ==
    /\ (/\ ev.op = "ui_event"
        /\ ev.pre.live
        /\ ev.pre.status = "running"
        /\ Len(ev.pre.history) >= maxSteps) =>
           /\ sessions[ev.sid].status = "failed"
           /\ ev.sid \notin activeSessions
           /\ LastRecord(ev.sid) = [step |-> Len(ev.pre.history) + 1, action |-> "failed",
                                    reason |-> ReasonMaxSteps]
           /\ ~ev.invoked
           /\ \A m \in Range(sent) : m.type # "action"
    /\ \A m \in Range(sent) : m.type = "action" => ~EndedByStepLimit(m.sid)

C10_Witness ==
    /\ ev.op = "ui_event"
    /\ ev.pre.live
    /\ ev.pre.status = "running"
    /\ Len(ev.pre.history) >= maxSteps
    /\ sessions[ev.sid].status = "failed"

\* The reasons of the commands that come from aiCore.decide.
DecisionReasons == {ReasonAi, ReasonAiFallback, ReasonLoading}

\* C13: in every reachable state the history of every session is as long as
\* its metrics.step_count says.
C13_HistoryMatchesStepCount ==
    \A sid \in 1..Len(sessions) :
        Len(sessions[sid].history) = sessions[sid].step_count

\* C14: every action command that comes from a decision of aiCore.decide is
\* sent for the session of the step, which was active and running when the
\* step began; and the return of a provider call for a session that is no
\* longer active or no longer running sends no action command at all.
C14_CommandOnlyWhenRunning ==
    /\ \A m \in Range(sent) :
           (m.type = "action" /\ m.reason \in DecisionReasons) =>
               /\ m.sid = ev.sid
               /\ ev.pre.live
               /\ ev.pre.status = "running"
    /\ (ev.op = "decide_return" /\ ~(ev.pre.live /\ ev.pre.status = "running")) =>
           \A m \in Range(sent) : m.type # "action"

C14_Witness ==
    /\ ev.op = "decide_return"
    /\ ev.arg = "click"
    /\ ev.pre.live
    /\ ev.pre.status = "paused"
    /\ \A m \in Range(sent) : m.type # "action"

\* C16: right after a task has been created its session is running.
C16_CreatedRunning ==
    ev.op = "create" => sessions[Len(sessions)].status = "running"

\* C18: when the heartbeat sweep deregisters the connection of a user, the
\* user's running or paused session stays active with its status and is
\* awaiting reconnect from then on, its grace period starting now.
C18_HeartbeatStartsGrace ==
    [][CheckHeartbeats =>
          \A sid \in activeSessions :
              (/\ sessions[sid].status \in {"running", "paused"}
               /\ userConnections[sessions[sid].user] # NoWs
               /\ userConnections'[sessions[sid].user] = NoWs) =>
                  /\ sid \in activeSessions'
                  /\ sessions'[sid].status = sessions[sid].status
                  /\ sessions'[sid].isWaitingReconnect
                  /\ sessions'[sid].deviceDisconnectedAt = now]_vars

\* The open sockets the registry holds for a user.
RegisteredLive(u) ==
    {ws \in Conns : clients[ws].present /\ clients[ws].user = u /\ wsState[ws] = "open"}

\* C11: in every reachable state a user has at most one open registered
\* connection, and right after an allow-listed user has connected the user is
\* bound to the new connection, the only open one registered for the user.
C11_OneLiveConnectionPerUser ==
    /\ \A u \in Users : Cardinality(RegisteredLive(u)) <= 1
    /\ (ev.op = "connect" /\ ev.arg \in allowedUserIds) =>
           /\ userConnections[ev.arg] = ev.ws
           /\ RegisteredLive(ev.arg) = {ev.ws}

\* C19: a connect whose user_id is absent or not in the allow-list closes
\* the new socket and changes nothing else: no other socket, no entry of the
\* registry, no binding of a user, no session; nothing is sent.
C19_RejectedConnectChangesNothing ==
    [][(ev'.op = "connect" /\ ev'.arg \notin allowedUserIds) =>
          /\ wsState'[ev'.ws] = "closed"
          /\ \A o \in Conns \ {ev'.ws} : wsState'[o] = wsState[o]
          /\ clients' = clients
          /\ userConnections' = userConnections
          /\ sessions' = sessions
          /\ activeSessions' = activeSessions
          /\ sent' = <<>>]_vars

C19_Witness ==
    /\ ev.op = "connect"
    /\ ev.arg = "intruder"
    /\ wsState[ev.ws] = "closed"
    /\ \E u \in Users : userConnections[u] # NoWs /\ wsState[userConnections[u]] = "open"
    /\ activeSessions # {}

\* C20: a creation request without user_id or goal is answered with status
\* 400 and the error code MISSING_FIELDS and changes nothing: no session is
\* created, no session of any user changes or leaves the active set, and
\* nothing is sent to a device.
C20_RejectedCreateChangesNothing ==
    [][ev'.op = "create_rejected" =>
          /\ sessions' = sessions
          /\ activeSessions' = activeSessions
          /\ sent' = <<[to |-> NoWs, type |-> "http", arg |-> "400",
                        reason |-> "MISSING_FIELDS", sid |-> NoSession]>>]_vars

C20_Witness ==
    /\ ev.op = "create_rejected"
    /\ OwnedNonTerminal(ev.arg) # {}
    /\ \E m \in Range(sent) : m.type = "http" /\ m.arg = "400"

\* The task_completed deliveries a step attempts for a session.
CallbacksFor(out, sid) ==
    {i \in DOMAIN out : out[i].type = "task_completed" /\ out[i].sid = sid}

\* C17: every step that takes a session from a status that is not terminal
\* to a terminal one leaves a final record carrying that status at the end of
\* the history, takes the session out of the active set and, when the session
\* has a callback_url, attempts exactly one task_completed delivery for it.
C17_TerminalTransitionNotifies ==
    [][\A sid \in 1..Len(sessions) :
          (sessions[sid].status \in NonTerminal /\ sessions'[sid].status \in Terminal) =>
              /\ Len(sessions'[sid].history) > Len(sessions[sid].history)
              /\ sessions'[sid].history[Len(sessions'[sid].history)].action = sessions'[sid].status
              /\ sid \notin activeSessions'
              /\ sessions[sid].callback_url =>
                     Cardinality(CallbacksFor(sent', sid)) = 1]_vars

\* The return of a provider call whose decision passes the staleness check.
DecisionAccepted == ev.op = "decide_return" /\ decisionIsFresh(ev.cyc)

\* The record addActionRecord writes for the decision of the last step.
DecisionRecord ==
    [step |-> Len(ev.pre.history) + 1, action |-> AiCoreDecide(ev.arg).action,
     reason |-> AiCoreDecide(ev.arg).reason]

\* C12 as stated: a step that accepts a decision leaves the history one
\* record longer, the record of the decision, numbered one above the length
\* the history had.
C12_ExactlyOneRecord ==
    DecisionAccepted => sessions[ev.sid].history = Append(ev.pre.history, DecisionRecord)

\* C12: a step that accepts a decision for a session that is still active
\* appends the record of the decision, numbered one above the length the
\* history had; a done or fail decision is followed by the final record of the
\* terminal transition and nothing else, any other decision by nothing.
C12_OneDecisionRecord ==
    (DecisionAccepted /\ ev.pre.live) =>
        sessions[ev.sid].history =
            IF AiCoreDecide(ev.arg).action \in {"done", "fail"}
            THEN Append(Append(ev.pre.history, DecisionRecord),
                        [step |-> Len(ev.pre.history) + 2,
                         action |-> sessions[ev.sid].status,
                         reason |-> AiCoreDecide(ev.arg).reason])
            ELSE Append(ev.pre.history, DecisionRecord)

C12_Witness ==
    /\ DecisionAccepted
    /\ ev.pre.live
    /\ ev.arg = "done"
    /\ Len(ev.pre.history) > 0
    /\ sessions[ev.sid].status = "completed"
    /\ Len(sessions[ev.sid].history) = Len(ev.pre.history) + 2

\* The status changes of the session state machine.
StatusChanges ==
    {<<"running", "paused">>, <<"paused", "running">>}
        \cup ({"running", "paused"} \X Terminal)

\* C15: every step changes the status of a session only along
\* running -> paused, paused -> running, or from running or paused to a
\* terminal status, and leaves the status and the history of a session that
\* is in a terminal status as they are.
C15_StatusMachine ==
    [][\A sid \in 1..Len(sessions) :
          /\ sessions'[sid].status # sessions[sid].status =>
                 <<sessions[sid].status, sessions'[sid].status>> \in StatusChanges
          /\ sessions[sid].status \in Terminal =>
                 /\ sessions'[sid].status = sessions[sid].status
                 /\ sessions'[sid].history = sessions[sid].history]_vars

\* C21: a task created for a user who has no open registered connection is
\* created all the same, as the newest active session and owned by the user;
\* no task_start is sent, nothing is sent to any socket, the registry and the
\* sockets are unchanged, and the response is 200 with device_connected false.
C21_CreateWithoutConnection ==
    [][(ev'.op = "create" /\ RegisteredLive(ev'.arg) = {}) =>
          /\ Len(sessions') = Len(sessions) + 1
          /\ Len(sessions') \in activeSessions'
          /\ sessions'[Len(sessions')].user = ev'.arg
          /\ \A m \in Range(sent') : m.to = NoWs /\ m.type # "task_start"
          /\ \E m \in Range(sent') :
                 m.type = "http" /\ m.arg = "200" /\ m.reason = "device_not_connected"
          /\ clients' = clients
          /\ userConnections' = userConnections
          /\ wsState' = wsState]_vars

C21_Witness ==
    /\ ev.op = "create"
    /\ RegisteredLive(ev.arg) = {}
    /\ userConnections[ev.arg] # NoWs
    /\ \E u \in Users : RegisteredLive(u) # {}
    /\ \E m \in Range(sent) : m.type = "http" /\ m.arg = "200"

\* C22: when a provider call of a running session fails and fewer than
\* aiFailureThreshold calls have failed in a row, the session is still
\* running, its failure counter equals the number of calls that failed in
\* a row (one more than before the call), and a 'wait' command has been sent
\* on the connection of the snapshot.
C22_FailureBelowThreshold ==
    (/\ ev.op = "decide_return"
     /\ ev.arg = "error"
     /\ ev.pre.live
     /\ ev.pre.status = "running"
     /\ wsState[ev.ws] = "open"
     /\ sessions[ev.sid].providerFailures < aiFailureThreshold) =>
        /\ ev.sid \in activeSessions
        /\ sessions[ev.sid].status = "running"
        /\ sessions[ev.sid].aiFailureCount = sessions[ev.sid].providerFailures
        /\ \E m \in Range(sent) :
               m.to = ev.ws /\ m.type = "action" /\ m.arg = "wait" /\ m.sid = ev.sid

\* C23: a snapshot for a session that is not active or not running calls no
\* provider, starts no cycle, sends nothing, and leaves the active set and
\* the status and history of every session as they were.
C23_SnapshotDiscarded ==
    [][(/\ ev'.op = "ui_event"
        /\ (ev'.sid \notin activeSessions \/ sessions[ev'.sid].status # "running")) =>
          /\ ~ev'.invoked
          /\ sent' = <<>>
          /\ activeSessions' = activeSessions
          /\ Len(sessions') = Len(sessions)
          /\ \A sid \in 1..Len(sessions) :
                 /\ sessions'[sid].status = sessions[sid].status
                 /\ sessions'[sid].history = sessions[sid].history
          /\ \A i \in 1..MaxCycles : cycles'[i].pc = cycles[i].pc]_vars

C23_Witness ==
    /\ ev.op = "ui_event"
    /\ ev.arg = "plain"
    /\ ev.pre.live
    /\ ev.pre.status = "paused"
    /\ ~ev.pre.flag
    /\ ~ev.invoked
    /\ sent = <<>>

\* The invocations suspended in aiCore.decide.
AwaitingCycles(cs) == {i \in 1..MaxCycles : cs[i].pc = "awaiting"}

\* C24: a resume for a paused session makes it running, calls no provider,
\* starts no cycle, leaves the call lock alone and sends nothing; and a step
\* that takes an invocation into aiCore.decide is the delivery of a snapshot.
C24_ResumeWaitsForSnapshot ==
    [][/\ (/\ ev'.op = "resume"
           /\ ev'.sid \in activeSessions
           /\ sessions[ev'.sid].status = "paused") =>
              /\ ev'.sid \in activeSessions'
              /\ sessions'[ev'.sid].status = "running"
              /\ sessions'[ev'.sid].aiCallInFlight = sessions[ev'.sid].aiCallInFlight
              /\ ~ev'.invoked
              /\ cycles' = cycles
              /\ sent' = <<>>
       /\ AwaitingCycles(cycles') \ AwaitingCycles(cycles) # {} => ev'.op = "ui_event"]_vars

C24_Witness ==
    /\ ev.op = "resume"
    /\ ev.pre.live
    /\ ev.pre.status = "paused"
    /\ sessions[ev.sid].status = "running"
    /\ Awaiting(ev.sid) = {}
    /\ sent = <<>>

\* For how long a session has received no snapshot, and for how long it has
\* been paused.
IdleFor(sess) == now - (IF sess.last_ui_event # 0 THEN sess.lastUiAt ELSE sess.created_at)

PausedFor(sess) == now - sess.pausedAt

\* C25: the timeout sweep cancels every running or paused session that has
\* received no snapshot for longer than taskTimeout or has been paused for
\* longer than pauseTimeout, and leaves active, with its status, every one
\* that has been without a snapshot for less than taskTimeout and is not
\* paused or has been paused for less than pauseTimeout.
C25_SweepCancelsExpired ==
    [][ev'.op = "cleanup" =>
          \A sid \in activeSessions :
              sessions[sid].status \in {"running", "paused"} =>
                  /\ (\/ IdleFor(sessions[sid]) > taskTimeout
                      \/ /\ sessions[sid].status = "paused"
                         /\ PausedFor(sessions[sid]) > pauseTimeout) =>
                         /\ sid \notin activeSessions'
                         /\ sessions'[sid].status = "cancelled"
                  /\ (/\ IdleFor(sessions[sid]) < taskTimeout
                      /\ sessions[sid].status = "paused" =>
                             PausedFor(sessions[sid]) < pauseTimeout) =>
                         /\ sid \in activeSessions'
                         /\ sessions'[sid].status = sessions[sid].status]_vars

\* The messages of a device that name a session.
SessionMessages == {"pause", "resume", "stop", "error", "ui_event"}

\* C26: a pause, resume, stop, error or ui_event that names a session which
\* is not in the active set changes no session, not the active set, not the
\* registry, no socket and no suspended invocation, and sends nothing.
C26_UnknownSessionIgnored ==
    [][(ev'.op \in SessionMessages /\ ev'.sid \notin activeSessions) =>
          /\ sessions' = sessions
          /\ activeSessions' = activeSessions
          /\ clients' = clients
          /\ userConnections' = userConnections
          /\ wsState' = wsState
          /\ cycles' = cycles
          /\ sent' = <<>>]_vars

C26_Witness ==
    /\ ev.op = "stop"
    /\ ~ev.pre.live
    /\ ev.pre.status = "completed"
    /\ isDeviceConnected(sessions[ev.sid].user)
    /\ sent = <<>>

\* C27: an error event with the code PACKAGE_NOT_FOUND for an active session
\* appends an 'error' record and ends the session as failed; an error event
\* with another code appends the 'error' record only: the session stays
\* active with the status it had, and nothing is sent.
C27_FatalErrorFails ==
    (ev.op = "error" /\ ev.pre.live) =>
        LET rec == [step |-> Len(ev.pre.history) + 1, action |-> "error",
                    reason |-> ReasonDeviceError]
        IN IF ev.arg = "PACKAGE_NOT_FOUND"
           THEN /\ sessions[ev.sid].status = "failed"
                /\ ev.sid \notin activeSessions
                /\ sessions[ev.sid].history[Len(ev.pre.history) + 1] = rec
           ELSE /\ sessions[ev.sid].status = ev.pre.status
                /\ ev.sid \in activeSessions
                /\ sessions[ev.sid].history = Append(ev.pre.history, rec)
                /\ sent = <<>>

C27_Witness ==
    /\ ev.op = "error"
    /\ ev.arg = "OTHER"
    /\ ev.pre.live
    /\ ev.pre.status = "running"
    /\ ev.pre.flag
    /\ sessions[ev.sid].status = "running"
    /\ LastRecord(ev.sid).action = "error"

\* What is left of an invocation of callLlmWithRetry: it falls with every
\* step the invocation takes.
RetryVariant(c) ==
    IF c.pc \in {"returned", "thrown"} THEN 0
    ELSE 2 * (aiRetryMaxAttempts - c.calls) + (IF c.pc = "calling" THEN 2 ELSE 1)

\* What holds of an invocation of callLlmWithRetry at every moment.
RetryDiscipline(c) ==
    /\ c.calls <= aiRetryMaxAttempts
    /\ c.calls = Len(c.errors) + (IF c.pc \in {"calling", "returned"} THEN 1 ELSE 0)
    /\ \A i \in 1..(Len(c.errors) - 1) : isRetryableError(c.errors[i])
    /\ c.pc \in {"calling", "returned", "sleeping"} =>
           \A i \in 1..Len(c.errors) : isRetryableError(c.errors[i])
    /\ c.pc = "sleeping" => c.calls < aiRetryMaxAttempts
    /\ c.pc = "thrown" =>
           /\ c.lastError = Len(c.errors)
           /\ c.lastError > 0
           /\ ~isRetryableError(c.errors[c.lastError]) \/ c.calls = aiRetryMaxAttempts

\* C28: an invocation of callLlmWithRetry requests callLlm at most
\* aiRetryMaxAttempts times, requests it again only after a retryable error
\* and while attempts are left, ends with the first success or the first
\* error that is not retryable, throws the error of its last request when it
\* throws, and comes nearer to its end with every step it takes.
C28_RetryTerminates ==
    [][\A sid \in SessionIds :
          /\ RetryDiscipline(llmCalls'[sid])
          /\ (llmCalls'[sid] # llmCalls[sid] /\ llmCalls[sid].pc \in {"calling", "sleeping"}) =>
                 RetryVariant(llmCalls'[sid]) < RetryVariant(llmCalls[sid])]_vars

C28_Witness ==
    \E sid \in SessionIds :
        /\ llmCalls[sid].pc = "thrown"
        /\ llmCalls[sid].calls = aiRetryMaxAttempts
        /\ isRetryableError(llmCalls[sid].errors[aiRetryMaxAttempts])

\* C29: no step lowers the input tokens, the output tokens or the step
\* count of a session, and after every step the total tokens of every
\* session are its input tokens plus its output tokens.
C29_MetricsMonotone ==
    [][/\ \A sid \in 1..Len(sessions) :
              /\ sessions'[sid].input_tokens >= sessions[sid].input_tokens
              /\ sessions'[sid].output_tokens >= sessions[sid].output_tokens
              /\ sessions'[sid].step_count >= sessions[sid].step_count
       /\ \A sid \in 1..Len(sessions') :
              sessions'[sid].total_tokens =
                  sessions'[sid].input_tokens + sessions'[sid].output_tokens]_vars

C29_Witness ==
    /\ ev.op = "decide_return"
    /\ sessions[ev.sid].input_tokens = MaxTokens + 1
    /\ sessions[ev.sid].output_tokens = MaxTokens + 1
    /\ sessions[ev.sid].total_tokens = 2 * MaxTokens + 2
    /\ sessions[ev.sid].step_count = 2

\* Whether h begins with g.
IsPrefix(g, h) == Len(g) <= Len(h) /\ \A i \in 1..Len(g) : h[i] = g[i]

\* C30: every step leaves the records a session had where they were and as
\* they were, adding records at the end only, and after every step the i-th
\* record of every session has step i.
C30_HistoryNumbered ==
    [][/\ \A sid \in 1..Len(sessions) :
              IsPrefix(sessions[sid].history, sessions'[sid].history)
       /\ \A sid \in 1..Len(sessions') :
              \A i \in 1..Len(sessions'[sid].history) :
                  sessions'[sid].history[i].step = i]_vars

C30_Witness ==
    \E sid \in 1..Len(sessions) :
        /\ sessions[sid].status \in Terminal
        /\ Len(sessions[sid].history) >= 4
        /\ \E r \in Range(sessions[sid].history) : r.reason = ReasonSensitive
        /\ \E r \in Range(sessions[sid].history) : r.reason = ReasonUserResume
        /\ \E r \in Range(sessions[sid].history) : r.reason = ReasonAi

\* The pause cause a TaskResume reason names.
CauseNamed(reason) == IF reason = ReasonUserPaused THEN ReasonUserPause ELSE reason

\* C31: every task_resume sent on a connect carries the goal and the status
\* the session has, and for a paused session a reason that names what the
\* session was paused for.
C31_ResumeCarriesPauseReason ==
    \A m \in Range(sent) :
        m.type = "task_resume" =>
            /\ m.goal = sessions[m.sid].goal
            /\ m.arg = sessions[m.sid].status
            /\ m.arg = "paused" => CauseNamed(m.reason) = sessions[m.sid].pauseCause

HoldsSensitive(s) ==
    LET parts == {s[i] : i \in DOMAIN s}
    IN "K" \in parts \/ ("Y" \in parts /\ parts \cap {"C", "K"} # {})

\* C33: the first-layer check matches a snapshot exactly when the text or the
\* description of one of its elements holds a sensitive keyword or a
\* currency sign together with a confirmation or payment word.
C33_GateMatchesTextOrDesc ==
    gate.called =>
        gate.isSensitive =
            \E i \in DOMAIN gate.elements :
                HoldsSensitive(gate.elements[i].text) \/ HoldsSensitive(gate.elements[i].desc)

\* C34: a ui_event, pause, resume, stop or error received on the connection
\* of one user and naming the session of another user leaves that session in
\* the active set with the status and the history it had, calls no provider
\* for it and sends nothing for it.
C34_OtherUsersSessionUntouched ==
    [][(/\ ev'.op \in SessionMessages
        /\ ev'.sid \in activeSessions
        /\ clients[ev'.ws].user # sessions[ev'.sid].user) =>
          /\ ev'.sid \in activeSessions'
          /\ sessions'[ev'.sid].status = sessions[ev'.sid].status
          /\ sessions'[ev'.sid].history = sessions[ev'.sid].history
          /\ ~ev'.invoked
          /\ \A m \in Range(sent') : m.sid # ev'.sid]_vars

\* C35: the close event of a socket that is not the one a user is bound to
\* leaves the binding of that user and the grace period of the user's
\* sessions as they are; and after every step every open registered
\* connection of a user is the one the user is bound to.
C35_StaleCloseHarmless ==
    [][/\ \A u \in Users :
              (ev'.op = "close_event" /\ userConnections[u] \notin {NoWs, ev'.ws}) =>
                  /\ userConnections'[u] = userConnections[u]
                  /\ \A sid \in activeSessions :
                         sessions[sid].user = u =>
                             /\ sessions'[sid].isWaitingReconnect = sessions[sid].isWaitingReconnect
                             /\ sessions'[sid].deviceDisconnectedAt =
                                    sessions[sid].deviceDisconnectedAt
       /\ \A u \in Users, ws \in Conns :
              (clients'[ws].present /\ clients'[ws].user = u /\ wsState'[ws] = "open") =>
                  userConnections'[u] = ws]_vars

\* C36: the return of a provider call for a session that is paused leaves the
\* session paused and active, with the history and the token metrics it had,
\* whatever the action of the decision.
C36_DecisionWhilePausedIgnored ==
    [][(/\ ev'.op = "decide_return"
        /\ ev'.sid \in activeSessions
        /\ sessions[ev'.sid].status = "paused") =>
          /\ ev'.sid \in activeSessions'
          /\ sessions'[ev'.sid].status = "paused"
          /\ sessions'[ev'.sid].history = sessions[ev'.sid].history
          /\ sessions'[ev'.sid].input_tokens = sessions[ev'.sid].input_tokens
          /\ sessions'[ev'.sid].output_tokens = sessions[ev'.sid].output_tokens
          /\ sessions'[ev'.sid].total_tokens = sessions[ev'.sid].total_tokens]_vars

\* C37: in every reachable state the history of every session has at most
\* maxSteps records and one final record.
C37_HistoryWithinStepBudget ==
    \A sid \in 1..Len(sessions) : Len(sessions[sid].history) <= maxSteps + 1

C39_FailedCallNotRecorded ==
    (ev.op = "decide_return" /\ ev.arg = "error" /\ ev.pre.live) =>
        /\ sessions[ev.sid].history = ev.pre.history
        /\ sessions[ev.sid].step_count = Len(ev.pre.history)

\* Whether session sid has been created, and whether it has ended.
Created(sid) == sid \in 1..Len(sessions)

Ended(sid) == sid \in 1..Len(sessions) /\ sessions[sid].status \in Terminal

\* C40: every session that has been created is in a terminal status at some
\* later time.
C40_EverySessionEnds == \A sid \in SessionIds : Created(sid) ~> Ended(sid)
====
